---- MODULE Spec2Model ----
(***************************************************************************)
(* Monte Carlo Tree Search over Connect Four with Popout (aima-rs).        *)
(*                                                                         *)
(* Two crates hold the game rules: connect-four-logic (flat row-major      *)
(* cells, used by the mcts-connect-four library) and connect-four (nested  *)
(* rows, used by the mcts-connect-four binary).  Their operators are       *)
(* modelled side by side; the ones of connect-four carry the prefix        *)
(* "Legacy".                                                               *)
(*                                                                         *)
(* Specifications:                                                         *)
(*   SpecBoard  Board::new followed by any sequence of insert / pop calls  *)
(*              applied to a board of each crate.                          *)
(*   Spec       get_best_mcts_move: Mcts::new, Mcts::run and best_action   *)
(*              on a Connect Four root state.                              *)
(***************************************************************************)
EXTENDS Integers, Sequences, FiniteSets, TLC

(***************************************************************************)
(* Bounds of the model.                                                    *)
(***************************************************************************)
MaxWidth == 2
MaxHeight == 2
MaxIterations == 3
MaxPlayouts == 2
MaxDepth == 2

MaxTime == 1

MaxNodes == 4

(***************************************************************************)
(* connect-four-logic: cells, players, errors.                             *)
(***************************************************************************)
Players == {"Player1", "Player2"}

\* Cell::Empty is "Empty"; Cell::Player(p) is the player p itself.
Empty == "Empty"

Cells == {Empty} \cup Players

\* Player::other
Other(p) == IF p = "Player1" THEN "Player2" ELSE "Player1"

Ok(v) == [ok |-> TRUE, val |-> v]

Err(kind, col) == [ok |-> FALSE, err |-> kind, col |-> col]

\* Board::new: width * height Empty cells, row-major, row 0 on top.
NewBoard(width, height) ==
    [cells |-> [i \in 1..(width * height) |-> Empty],
     width |-> width, height |-> height]

\* Board::get: cells[row * width + col] (the Vec is 0-based, the sequence 1-based).
Get(board, col, row) == board.cells[row * board.width + col + 1]

\* Board::get on any (col, row): the Vec index panics beyond the last cell,
\* and nothing else is checked.
GetIndexed(board, col, row) ==
    IF row * board.width + col < Len(board.cells)
    THEN Ok(board.cells[row * board.width + col + 1])
    ELSE Err("index out of bounds", row * board.width + col)

\* Board::get_mut followed by an assignment through the reference.
SetCell(board, col, row, cell) ==
    [board EXCEPT !.cells[row * board.width + col + 1] = cell]

\* Board::get_col
GetCol(board, col) == [r \in 1..board.height |-> Get(board, col, r - 1)]

\* The loop of Board::can_insert: rows height-1 down to 0, first Empty wins.
RECURSIVE CanInsertFrom(_, _, _)
CanInsertFrom(board, col, row) ==
    IF row < 0 THEN Err("ColumnFull", col)
    ELSE IF Get(board, col, row) = Empty THEN Ok(row)
    ELSE CanInsertFrom(board, col, row - 1)

\* Mutant of CanInsert: the scan skips the bottom row.
CanInsertSkipsBottom(board, col) == CanInsertFrom(board, col, board.height - 2)

\* Mutant of CanInsert: the scan reports the topmost Empty row.
CanInsertTopmost(board, col) ==
    IF Get(board, col, 0) = Empty THEN Ok(0) ELSE Err("ColumnFull", col)

\* Board::can_insert
CanInsert(board, col) == CanInsertFrom(board, col, board.height - 1)

\* Mutant of Insert: the piece is also written into the cell to the right.
InsertSmearsRight(board, col, player) ==
    LET r == CanInsert(board, col)
    IN  IF r.ok
        THEN [result |-> Ok("unit"),
              board |-> IF col + 1 < board.width
                        THEN SetCell(SetCell(board, col, r.val, player),
                                     col + 1, r.val, player)
                        ELSE SetCell(board, col, r.val, player)]
        ELSE [result |-> r, board |-> board]

\* Board::insert
Insert(board, col, player) ==
    LET r == CanInsert(board, col)
    IN  IF r.ok
        THEN [result |-> Ok("unit"), board |-> SetCell(board, col, r.val, player)]
        ELSE [result |-> r, board |-> board]

\* Mutant of CanPop: the owner of the bottom piece is not checked.
CanPopAnyOwner(board, col, player) ==
    LET last_cell == GetCol(board, col)[board.height]
    IN  IF last_cell = Empty THEN Err("ColumnEmpty", col) ELSE Ok("unit")

\* Board::can_pop
CanPop(board, col, player) ==
    LET last_cell == GetCol(board, col)[board.height]
    IN  IF last_cell = Empty THEN Err("ColumnEmpty", col)
        ELSE IF last_cell # player THEN Err("ColumnNotYours", col)
        ELSE Ok("unit")

\* The loop of Board::pop: for row in (0..height-1).rev(), cell(row+1) := cell(row).
RECURSIVE PopShift(_, _, _)
PopShift(board, col, row) ==
    IF row < 0 THEN board
    ELSE PopShift(SetCell(board, col, row + 1, Get(board, col, row)), col, row - 1)

\* Mutant of Pop: the column is shifted down before the check, and stays
\* shifted when the check fails.
PopShiftsBeforeCheck(board, col, player) ==
    LET r == CanPop(board, col, player)
        shifted == SetCell(PopShift(board, col, board.height - 2), col, 0, Empty)
    IN  IF r.ok THEN [result |-> Ok("unit"), board |-> shifted]
        ELSE [result |-> r, board |-> shifted]

\* Board::pop
Pop(board, col, player) ==
    LET r == CanPop(board, col, player)
    IN  IF r.ok
        THEN [result |-> Ok("unit"),
              board |-> SetCell(PopShift(board, col, board.height - 2), col, 0, Empty)]
        ELSE [result |-> r, board |-> board]

\* MoveType and Move
Move(move_type, column) == [move_type |-> move_type, column |-> column]

\* The loop of get_legal_moves over the columns from col to width-1.
RECURSIVE LegalMovesFrom(_, _, _)
LegalMovesFrom(board, player, col) ==
    IF col >= board.width THEN <<>>
    ELSE (IF CanInsert(board, col).ok THEN <<Move("Insert", col)>> ELSE <<>>)
         \o (IF CanPop(board, col, player).ok THEN <<Move("Pop", col)>> ELSE <<>>)
         \o LegalMovesFrom(board, player, col + 1)

\* Mutant of GetLegalMoves: Pop is offered on every column that holds a piece.
RECURSIVE LegalMovesAnyPopFrom(_, _, _)
LegalMovesAnyPopFrom(board, player, col) ==
    IF col >= board.width THEN <<>>
    ELSE (IF CanInsert(board, col).ok THEN <<Move("Insert", col)>> ELSE <<>>)
         \o (IF CanPopAnyOwner(board, col, player).ok THEN <<Move("Pop", col)>> ELSE <<>>)
         \o LegalMovesAnyPopFrom(board, player, col + 1)

GetLegalMovesAnyPop(board, player) == LegalMovesAnyPopFrom(board, player, 0)

\* Mutant of GetLegalMoves: Pop(c) is listed before Insert(c).
RECURSIVE LegalMovesPopFirstFrom(_, _, _)
LegalMovesPopFirstFrom(board, player, col) ==
    IF col >= board.width THEN <<>>
    ELSE (IF CanPop(board, col, player).ok THEN <<Move("Pop", col)>> ELSE <<>>)
         \o (IF CanInsert(board, col).ok THEN <<Move("Insert", col)>> ELSE <<>>)
         \o LegalMovesPopFirstFrom(board, player, col + 1)

GetLegalMovesPopFirst(board, player) == LegalMovesPopFirstFrom(board, player, 0)

\* get_legal_moves
GetLegalMoves(board, player) == LegalMovesFrom(board, player, 0)

\* TerminalPosition
IsTerminalWin(p) == [kind |-> "IsTerminalWin", player |-> p]

IsTerminalDraw == [kind |-> "IsTerminalDraw", player |-> "none"]

IsNotTerminal == [kind |-> "IsNotTerminal", player |-> "none"]

\* Mutant of LineFrom: the diagonal-up check is left out.
LineFromNoDiagonalUp(board, col, row) ==
    LET cell1 == Get(board, col, row)
        w == board.width
        h == board.height
    IN  \/ /\ col + 3 < w
           /\ \A i \in 1..3 : Get(board, col + i, row) = cell1
        \/ /\ row + 3 < h
           /\ \A i \in 1..3 : Get(board, col, row + i) = cell1
        \/ /\ col + 3 < w /\ row + 3 < h
           /\ \A i \in 1..3 : Get(board, col + i, row + i) = cell1

\* The four line checks is_terminal_position makes at the origin (col, row).
LineFrom(board, col, row) ==
    LET cell1 == Get(board, col, row)
        w == board.width
        h == board.height
    IN  \/ /\ col + 3 < w
           /\ \A i \in 1..3 : Get(board, col + i, row) = cell1
        \/ /\ row + 3 < h
           /\ \A i \in 1..3 : Get(board, col, row + i) = cell1
        \/ /\ col + 3 < w /\ row + 3 < h
           /\ \A i \in 1..3 : Get(board, col + i, row + i) = cell1
        \/ /\ col + 3 < w /\ row >= 3
           /\ \A i \in 1..3 : Get(board, col + i, row - i) = cell1

\* The scan of is_terminal_position from the origin with row-major index i on.
RECURSIVE WinScan(_, _)
WinScan(board, i) ==
    IF i >= board.width * board.height THEN "none"
    ELSE LET row == i \div board.width
             col == i % board.width
         IN  IF Get(board, col, row) # Empty /\ LineFrom(board, col, row)
             THEN Get(board, col, row)
             ELSE WinScan(board, i + 1)

\* is_terminal_position
IsTerminalPosition(board) ==
    LET winner == WinScan(board, 0)
    IN  IF winner # "none" THEN IsTerminalWin(winner)
        ELSE IF GetLegalMoves(board, "Player1") = <<>> THEN IsTerminalDraw
        ELSE IsNotTerminal

(***************************************************************************)
(* connect-four (the crate of the mcts-connect-four binary): cells are a   *)
(* Vec of rows.                                                            *)
(***************************************************************************)
\* Board::new
LegacyNewBoard(width, height) ==
    [cells |-> [r \in 1..height |-> [c \in 1..width |-> Empty]],
     width |-> width, height |-> height]

\* self.cells[row][col]
LegacyCell(board, col, row) == board.cells[row + 1][col + 1]

\* Board::get
LegacyGet(board, col, row) ==
    IF col >= board.width THEN Err("InvalidColumn", col)
    ELSE IF row >= board.height THEN Err("InvalidRow", row)
    ELSE Ok(LegacyCell(board, col, row))

\* self.cells[row][col] = cell
LegacySetCell(board, col, row, cell) ==
    [board EXCEPT !.cells[row + 1][col + 1] = cell]

\* The loop of Board::can_insert / Board::insert: the lowest Empty row, or -1.
RECURSIVE LegacyEmptyRowFrom(_, _, _)
LegacyEmptyRowFrom(board, col, row) ==
    IF row < 0 THEN -1
    ELSE IF LegacyCell(board, col, row) = Empty THEN row
    ELSE LegacyEmptyRowFrom(board, col, row - 1)

\* Board::can_insert
LegacyCanInsert(board, col) ==
    IF col >= board.width THEN Err("InvalidColumn", col)
    ELSE IF LegacyEmptyRowFrom(board, col, board.height - 1) >= 0 THEN Ok("unit")
    ELSE Err("ColumnFull", col)

\* Board::insert
LegacyInsert(board, col, player) ==
    LET r == LegacyCanInsert(board, col)
    IN  IF r.ok
        THEN [result |-> Ok("unit"),
              board |-> LegacySetCell(board, col,
                            LegacyEmptyRowFrom(board, col, board.height - 1), player)]
        ELSE [result |-> r, board |-> board]

\* Board::can_pop
LegacyCanPop(board, col, player) ==
    IF col >= board.width THEN Err("InvalidColumn", col)
    ELSE LET last_cell == LegacyCell(board, col, board.height - 1)
         IN  IF last_cell = Empty THEN Err("ColumnEmpty", col)
             ELSE IF last_cell # player THEN Err("ColumnNotYours", col)
             ELSE Ok("unit")

\* The loop of Board::pop: for row in (0..height-1).rev(), cells[row+1][col] := cells[row][col].
RECURSIVE LegacyPopShift(_, _, _)
LegacyPopShift(board, col, row) ==
    IF row < 0 THEN board
    ELSE LegacyPopShift(
             LegacySetCell(board, col, row + 1, LegacyCell(board, col, row)), col, row - 1)

\* Board::pop (the top cell is not cleared)
LegacyPop(board, col, player) ==
    LET r == LegacyCanPop(board, col, player)
    IN  IF r.ok
        THEN [result |-> Ok("unit"), board |-> LegacyPopShift(board, col, board.height - 2)]
        ELSE [result |-> r, board |-> board]

(***************************************************************************)
(* mcts-connect-four: the game state handed to the search.                 *)
(***************************************************************************)
\* State { board, turn, who_am_i }
GameState(b, turn, who_am_i) == [board |-> b, turn |-> turn, who_am_i |-> who_am_i]

\* Mutant of GetActions: the first legal move is listed twice.
GetActionsRepeated(state) ==
    LET moves == GetLegalMoves(state.board, state.turn)
    IN  IF moves = <<>> THEN moves ELSE moves \o <<moves[1]>>

\* State::get_actions
GetActions(state) == GetLegalMoves(state.board, state.turn)

\* The match on move_type of get_next_state and playout: insert or pop.
ApplyMove(b, m, player) ==
    IF m.move_type = "Insert" THEN Insert(b, m.column, player)
    ELSE Pop(b, m.column, player)

\* Mutant of GetNextState: the turn is not handed to the other player.
GetNextStateKeepsTurn(state, action) ==
    LET r == ApplyMove(state.board, action, state.turn)
    IN  [panic |-> ~r.result.ok,
         state |-> GameState(r.board, state.turn, state.who_am_i)]

\* State::get_next_state: expect("Invalid move") panics on an Err.
GetNextState(state, action) ==
    LET r == ApplyMove(state.board, action, state.turn)
    IN  [panic |-> ~r.result.ok,
         state |-> GameState(r.board, Other(state.turn), state.who_am_i)]

\* State::is_terminal
IsTerminal(state) == IsTerminalPosition(state.board) # IsNotTerminal

\* Mutant of FirstWinningMove: no move is recognised as winning.
FirstWinningMoveNever(b, moves, player, i) == 0

\* The first move of the list that wins for the mover, 0 if there is none
\* (the for loop of playout, which breaks at the first winning move).
RECURSIVE FirstWinningMove(_, _, _, _)
FirstWinningMove(b, moves, player, i) ==
    IF i > Len(moves) THEN 0
    ELSE IF IsTerminalPosition(ApplyMove(b, moves[i], player).board) = IsTerminalWin(player)
         THEN i
         ELSE FirstWinningMove(b, moves, player, i + 1)

\* Mutant of PlayoutResult: a win of either player counts as Win.
PlayoutResultAnyWin(b, who_am_i) ==
    IF IsTerminalPosition(b).kind = "IsTerminalWin" THEN "Win" ELSE "NotWin"

\* The result mapping at the end of playout.
PlayoutResult(b, who_am_i) ==
    IF IsTerminalPosition(b) = IsTerminalWin(who_am_i) THEN "Win" ELSE "NotWin"

(***************************************************************************)
(* monte-carlo-tree-search: the arena of nodes.  A MctsNodeKey is the      *)
(* index of the node in the SlotMap; keys are never removed.               *)
(***************************************************************************)
\* Option::None of MctsNode.parent
NoneKey == 0

\* Int::MIN
IntMin == (-2147483647) - 1

\* Mutant of NewNode: the node starts with one visit.
NewNodeVisited(parent) ==
    [parent |-> parent, children |-> <<>>, visits |-> 1, wins |-> 0]

\* MctsNode::new
NewNode(parent) ==
    [parent |-> parent, children |-> <<>>, visits |-> 0, wins |-> 0]

\* MctsTree::new
NewTree(root_state) ==
    [nodes |-> <<NewNode(NoneKey)>>, root |-> 1, root_state |-> root_state]

\* MctsTree::get_children_nodekeys
Children(tree, node) == tree.nodes[node].children

\* Mutant of AddChild: the new node's parent is the root.
AddChildOfRoot(tree, parent, action) ==
    LET child == Len(tree.nodes) + 1
        old == tree.nodes[parent].children
        new == [a \in (DOMAIN old) \cup {action} |->
                    IF a = action THEN child ELSE old[a]]
    IN  [tree EXCEPT !.nodes =
            Append([tree.nodes EXCEPT ![parent].children = new], NewNode(tree.root))]

\* Mutant of AddChild: the child is also filed under the pop of its column.
AddChildWithPop(tree, parent, action) ==
    LET child == Len(tree.nodes) + 1
        old == tree.nodes[parent].children
        pop == [move_type |-> "Pop", column |-> action.column]
        new == [a \in (DOMAIN old) \cup {action, pop} |->
                    IF a \in DOMAIN old THEN old[a] ELSE child]
    IN  [tree EXCEPT !.nodes =
            Append([tree.nodes EXCEPT ![parent].children = new], NewNode(parent))]

\* Mutant of AddChild: the parent's children map keeps the new entry only.
AddChildAlone(tree, parent, action) ==
    LET child == Len(tree.nodes) + 1
        new == [a \in {action} |-> child]
    IN  [tree EXCEPT !.nodes =
            Append([tree.nodes EXCEPT ![parent].children = new], NewNode(parent))]

\* MctsTree::add_child
AddChild(tree, parent, action) ==
    LET child == Len(tree.nodes) + 1
        old == tree.nodes[parent].children
        new == [a \in (DOMAIN old) \cup {action} |->
                    IF a = action THEN child ELSE old[a]]
    IN  [tree EXCEPT !.nodes =
            Append([tree.nodes EXCEPT ![parent].children = new], NewNode(parent))]

\* The loop of expand: add_child for every action, in order.
RECURSIVE AddChildren(_, _, _, _)
AddChildren(tree, parent, actions, i) ==
    IF i > Len(actions) THEN tree
    ELSE AddChildren(AddChild(tree, parent, actions[i]), parent, actions, i + 1)

(***************************************************************************)
(* uct_score in fixed point.  Scores are in units of 1/10000; ln is        *)
(* tabulated in units of 1/100000000 from the series                       *)
(*   ln(n) - ln(n-1) = 2 atanh(1/(2n-1)) = 2 (z + z^3/3 + z^5/5 + ...).    *)
(* Every truncation rounds down, so a fixed-point score is at most 4 units *)
(* below the f64 score; scores closer than that are treated as a tie.      *)
(***************************************************************************)
RECURSIVE AtanhSeries(_, _, _)
AtanhSeries(m, p, i) ==
    IF p > 200000000 \div i THEN 0
    ELSE (200000000 \div (i * p))
         + (IF p > 200000000 \div (m * m) THEN 0 ELSE AtanhSeries(m, p * m * m, i + 2))

RECURSIVE LnFix(_)
LnFix(n) == IF n <= 1 THEN 0 ELSE LnFix(n - 1) + AtanhSeries(2 * n - 1, 2 * n - 1, 1)

\* The visits of the root of the tree of build_test_tree.
ReferenceRootVisits == 100

\* f64::ln on the visit counts a run can reach and on those of the tree of
\* build_test_tree.
LnTable ==
    [n \in (1..((MaxIterations + 1) * (MaxPlayouts + 1))) \cup (1..ReferenceRootVisits)
        |-> LnFix(n)]

\* f64::sqrt: the floor of the square root, by bisection on lo..hi.
RECURSIVE SqrtBetween(_, _, _)
SqrtBetween(x, lo, hi) ==
    IF lo >= hi THEN lo
    ELSE LET mid == (lo + hi + 1) \div 2
         IN  IF mid * mid <= x THEN SqrtBetween(x, mid, hi)
             ELSE SqrtBetween(x, lo, mid - 1)

ISqrt(x) == SqrtBetween(x, 0, 46340)

\* Mutant of UctScore: an unvisited node scores zero instead of +inf.
UctScoreUnvisitedZero(node_visits, node_wins, parent_visits, exploration_constant) ==
    IF node_visits = 0 THEN [kind |-> "num", val |-> 0]
    ELSE IF parent_visits = 0 THEN [kind |-> "nan", val |-> 0]
    ELSE [kind |-> "num",
          val |-> (node_wins * 10000) \div node_visits
                  + (exploration_constant
                     * ISqrt(LnTable[parent_visits] \div node_visits)) \div 10000]

\* Mutant of UctScore: the exploration term is left out.
UctScoreExploitOnly(node_visits, node_wins, parent_visits, exploration_constant) ==
    IF node_visits = 0 THEN [kind |-> "inf", val |-> 0]
    ELSE IF parent_visits = 0 THEN [kind |-> "nan", val |-> 0]
    ELSE [kind |-> "num", val |-> (node_wins * 10000) \div node_visits]

\* uct_score: +inf for an unvisited node; NaN when ln(0) = -inf gets under the root.
UctScore(node_visits, node_wins, parent_visits, exploration_constant) ==
    IF node_visits = 0 THEN [kind |-> "inf", val |-> 0]
    ELSE IF parent_visits = 0 THEN [kind |-> "nan", val |-> 0]
    ELSE [kind |-> "num",
          val |-> (node_wins * 10000) \div node_visits
                  + (exploration_constant
                     * ISqrt(LnTable[parent_visits] \div node_visits)) \div 10000]

\* UctSelectResult
UctSelectResult(node, action, finished, panic) ==
    [node |-> node, action |-> action, finished |-> finished, panic |-> panic]

NoAction == Move("None", 0)

\* Mutant of UctSelect: any child is returned, whatever its score.
UctSelectAnyChild(tree, node_key, exploration_constant) ==
    LET children == Children(tree, node_key)
    IN  IF DOMAIN children = {} THEN {UctSelectResult(node_key, NoAction, TRUE, FALSE)}
        ELSE {UctSelectResult(children[a], a, FALSE, FALSE) : a \in DOMAIN children}

\* uct_select: the results max_by can produce over the iteration orders of
\* the children HashMap (it keeps the last maximum of the order it is given).
\* partial_cmp(..).unwrap() panics when a NaN score is compared.
UctSelect(tree, node_key, exploration_constant) ==
    LET node == tree.nodes[node_key]
        children == Children(tree, node_key)
        score(a) == UctScore(tree.nodes[children[a]].visits,
                             tree.nodes[children[a]].wins,
                             node.visits, exploration_constant)
        acts == DOMAIN children
        infs == {a \in acts : score(a).kind = "inf"}
        best == {a \in acts : \A b \in acts : score(a).val + 4 >= score(b).val}
    IN  IF acts = {} THEN {UctSelectResult(node_key, NoAction, TRUE, FALSE)}
        ELSE IF Cardinality(acts) >= 2 /\ \E a \in acts : score(a).kind = "nan"
        THEN {UctSelectResult(node_key, NoAction, FALSE, TRUE)}
        ELSE {UctSelectResult(children[a], a, FALSE, FALSE) :
                  a \in IF infs # {} THEN infs ELSE best}

\* The walk of back_propagate from node_key up to the root.
RECURSIVE BackPropagateFrom(_, _, _, _)
BackPropagateFrom(nodes, node_key, visits, wins) ==
    LET updated == [nodes EXCEPT ![node_key].visits = @ + visits,
                                 ![node_key].wins = @ + wins]
    IN  IF nodes[node_key].parent = NoneKey THEN updated
        ELSE BackPropagateFrom(updated, nodes[node_key].parent, visits, wins)

\* Number of SimulationResult::Win entries.
RECURSIVE CountWins(_, _)
CountWins(results, i) ==
    IF i > Len(results) THEN 0
    ELSE (IF results[i] = "Win" THEN 1 ELSE 0) + CountWins(results, i + 1)

\* Mutant of BackPropagate: one visit per call instead of one per result.
BackPropagateOneVisit(tree, node_key, results) ==
    [tree EXCEPT !.nodes =
        BackPropagateFrom(tree.nodes, node_key, 1,
                          IF CountWins(results, 1) > 0 THEN 1 ELSE 0)]

\* Mutant of BackPropagate: only the given node is updated, not its ancestors.
BackPropagateLeafOnly(tree, node_key, results) ==
    [tree EXCEPT !.nodes[node_key].visits = @ + Len(results),
                 !.nodes[node_key].wins = @ + CountWins(results, 1)]

\* Mutant of BackPropagate: every result is counted as a win.
BackPropagateAllWins(tree, node_key, results) ==
    [tree EXCEPT !.nodes =
        BackPropagateFrom(tree.nodes, node_key, Len(results), Len(results))]

\* Mutant of BackPropagate: the walk stops below the root.
BackPropagateBelowRoot(tree, node_key, results) ==
    IF tree.nodes[node_key].parent = NoneKey THEN tree
    ELSE [tree EXCEPT !.nodes =
             [n \in DOMAIN tree.nodes |->
                 IF n = tree.root THEN tree.nodes[n]
                 ELSE BackPropagateFrom(tree.nodes, node_key, Len(results),
                                        CountWins(results, 1))[n]]]

\* Mcts::back_propagate
BackPropagate(tree, node_key, results) ==
    [tree EXCEPT !.nodes =
        BackPropagateFrom(tree.nodes, node_key, Len(results), CountWins(results, 1))]

\* The keys of a children map as a sequence, by ascending child key.
RECURSIVE KeysInOrder(_, _)
KeysInOrder(children, rest) ==
    IF rest = {} THEN <<>>
    ELSE LET a == CHOOSE x \in rest : \A y \in rest : children[x] <= children[y]
         IN  <<a>> \o KeysInOrder(children, rest \ {a})

\* Iteration orders of a children HashMap: the order is fixed by the hasher
\* and unknown here, so any entry may come first.  Rotations of one order.
HashOrders(children) ==
    LET seq == KeysInOrder(children, DOMAIN children)
        n == Len(seq)
    IN  {[i \in 1..n |-> seq[((i + r - 1) % n) + 1]] : r \in 0..(n - 1)}

\* Mutant of BestActionLoop: the child with the most wins is kept.
RECURSIVE BestActionLoopByWins(_, _, _, _, _)
BestActionLoopByWins(tree, order, i, best_action, best_score) ==
    IF i > Len(order) THEN best_action
    ELSE LET child_node == tree.nodes[Children(tree, tree.root)[order[i]]]
         IN  IF child_node.wins > best_score
             THEN BestActionLoopByWins(tree, order, i + 1, order[i], child_node.wins)
             ELSE BestActionLoopByWins(tree, order, i + 1, best_action, best_score)

\* The loop of best_action over one iteration order.
RECURSIVE BestActionLoop(_, _, _, _, _)
BestActionLoop(tree, order, i, best_action, best_score) ==
    IF i > Len(order) THEN best_action
    ELSE LET child_node == tree.nodes[Children(tree, tree.root)[order[i]]]
         IN  IF child_node.visits > best_score
             THEN BestActionLoop(tree, order, i + 1, order[i], child_node.visits)
             ELSE BestActionLoop(tree, order, i + 1, best_action, best_score)

\* Mcts::best_action: the set of values it can return (None is NoAction).
BestAction(tree) ==
    IF DOMAIN Children(tree, tree.root) = {} THEN {NoAction}
    ELSE {BestActionLoop(tree, order, 1, NoAction, IntMin) :
              order \in HashOrders(Children(tree, tree.root))}

(***************************************************************************)
(* State.                                                                  *)
(*   crate    which game crate the board calls of SpecBoard go to          *)
(*   board    a connect_four_logic::Board                                  *)
(*   legacy   a connect_four::Board                                        *)
(*   last     the last call made on the board and what it returned         *)
(*   tree     Mcts.tree: nodes, root, root_state                           *)
(*   cfg      iteration_limit, exploration_constant,                       *)
(*            playouts_per_simulation, max_depth_per_playout               *)
(*   pc       where get_best_mcts_move stands                              *)
(*   iter     iterations of run() completed                                *)
(*   cur      the (node_key, state) pair handed from phase to phase        *)
(*   results  the playout results simulate has collected                   *)
(*   po       the locals of the playout in progress                        *)
(*   best     what best_action returned                                    *)
(*   panic    the panic that ended the call, "" if none                    *)
(*   elapsed  start.elapsed() of run(), in ticks of the clock              *)
(*   chosen   history: the nodes expand has returned as its random child   *)
(***************************************************************************)
VARIABLES crate, board, legacy, last, tree, cfg, pc, iter, cur, results, po, best, panic,
          elapsed, chosen

boardVars == <<crate, board, legacy, last>>

mctsVars == <<tree, cfg, pc, iter, cur, results, po, best, panic, elapsed, chosen>>

vars == <<crate, board, legacy, last, tree, cfg, pc, iter, cur, results, po, best, panic,
         elapsed, chosen>>

\* Mcts { iteration_limit: Iterations(n), exploration_constant, .. }
Config(iterations, exploration_constant, playouts, max_depth) ==
    [limit_kind |-> "Iterations",
     iterations |-> iterations,
     time |-> 0,
     exploration_constant |-> exploration_constant,
     playouts_per_simulation |-> playouts,
     max_depth_per_playout |-> max_depth]

\* Mcts { iteration_limit: TimeSeconds(time), exploration_constant, .. }
TimedConfig(time, exploration_constant, playouts, max_depth) ==
    [limit_kind |-> "TimeSeconds",
     iterations |-> 0,
     time |-> time,
     exploration_constant |-> exploration_constant,
     playouts_per_simulation |-> playouts,
     max_depth_per_playout |-> max_depth]

\* The locals of playout on entry: current_player, board, depth.
NewPlayout(state) ==
    [board |-> state.board, current_player |-> state.turn, depth |-> 0,
     used_winning_move |-> FALSE]

\* No playout in progress.
NoPlayout(state) == NewPlayout(state)

NoCall == [op |-> "new", col |-> 0, player |-> "none", result |-> Ok("unit")]

Call(op, col, player, result) ==
    [op |-> op, col |-> col, player |-> player, result |-> result]

\* Board::new(width, height) of either crate.
InitBoard ==
    \E w \in 1..MaxWidth, h \in 1..MaxHeight :
        /\ crate \in {"connect_four_logic", "connect_four"}
        /\ board = NewBoard(w, h)
        /\ legacy = LegacyNewBoard(w, h)
        /\ last = NoCall
        /\ tree = NewTree(GameState(NewBoard(w, h), "Player1", "Player1"))
        /\ cfg = Config(0, 0, 0, 0)
        /\ pc = "idle"
        /\ iter = 0
        /\ cur = [node |-> 1, state |-> tree.root_state]
        /\ results = <<>>
        /\ po = NoPlayout(tree.root_state)
        /\ best = NoAction
        /\ panic = ""
        /\ elapsed = 0
        /\ chosen = {}

\* connect_four_logic: board.insert(col, player)
BoardInsert(col, player) ==
    /\ crate = "connect_four_logic"
    /\ LET r == Insert(board, col, player)
       IN  /\ board' = r.board
           /\ last' = Call("insert", col, player, r.result)
    /\ UNCHANGED <<crate, legacy, mctsVars>>

\* connect_four_logic: board.pop(col, player)
BoardPop(col, player) ==
    /\ crate = "connect_four_logic"
    /\ LET r == Pop(board, col, player)
       IN  /\ board' = r.board
           /\ last' = Call("pop", col, player, r.result)
    /\ UNCHANGED <<crate, legacy, mctsVars>>

\* connect_four_logic: board.can_insert(col), which takes &self.
BoardCanInsert(col) ==
    /\ crate = "connect_four_logic"
    /\ last' = Call("can_insert", col, "none", CanInsert(board, col))
    /\ UNCHANGED <<crate, board, legacy, mctsVars>>

\* connect_four_logic: board.can_pop(col, player), which takes &self.
BoardCanPop(col, player) ==
    /\ crate = "connect_four_logic"
    /\ last' = Call("can_pop", col, player, CanPop(board, col, player))
    /\ UNCHANGED <<crate, board, legacy, mctsVars>>

\* connect_four_logic: get_legal_moves(&board, player).
BoardGetLegalMoves(player) ==
    /\ crate = "connect_four_logic"
    /\ last' = Call("get_legal_moves", 0, player, Ok(GetLegalMoves(board, player)))
    /\ UNCHANGED <<crate, board, legacy, mctsVars>>

\* connect_four_logic: is_terminal_position(&board).
BoardIsTerminalPosition ==
    /\ crate = "connect_four_logic"
    /\ last' = Call("is_terminal_position", 0, "none", Ok(IsTerminalPosition(board)))
    /\ UNCHANGED <<crate, board, legacy, mctsVars>>

\* connect_four: board.insert(col, player)
LegacyBoardInsert(col, player) ==
    /\ crate = "connect_four"
    /\ LET r == LegacyInsert(legacy, col, player)
       IN  /\ legacy' = r.board
           /\ last' = Call("insert", col, player, r.result)
    /\ UNCHANGED <<crate, board, mctsVars>>

\* connect_four: board.pop(col, player)
LegacyBoardPop(col, player) ==
    /\ crate = "connect_four"
    /\ LET r == LegacyPop(legacy, col, player)
       IN  /\ legacy' = r.board
           /\ last' = Call("pop", col, player, r.result)
    /\ UNCHANGED <<crate, board, mctsVars>>

NextBoard ==
    \E col \in 0..(board.width - 1), player \in Players :
        \/ BoardInsert(col, player)
        \/ BoardPop(col, player)
        \/ LegacyBoardInsert(col, player)
        \/ LegacyBoardPop(col, player)
        \/ BoardCanInsert(col)
        \/ BoardCanPop(col, player)
        \/ BoardGetLegalMoves(player)
        \/ BoardIsTerminalPosition

SpecBoard == InitBoard /\ [][NextBoard]_vars

(***************************************************************************)
(* get_best_mcts_move: Mcts::new, run(), best_action().unwrap().           *)
(***************************************************************************)
\* board.insert applied in order, as the tests set positions up.
RECURSIVE InsertAll(_, _, _)
InsertAll(b, pieces, i) ==
    IF i > Len(pieces) THEN b
    ELSE InsertAll(Insert(b, pieces[i][1], pieces[i][2]).board, pieces, i + 1)

P1 == "Player1"

P2 == "Player2"

\* The boards the search is started on.
RootBoards ==
    { InsertAll(NewBoard(1, 1), <<<<0, P1>>>>, 1),
      InsertAll(NewBoard(1, 1), <<<<0, P2>>>>, 1),
      InsertAll(NewBoard(1, 4), <<>>, 1),
      InsertAll(NewBoard(1, 4), <<<<0, P1>>, <<0, P1>>, <<0, P1>>>>, 1),
      InsertAll(NewBoard(1, 4), <<<<0, P1>>, <<0, P2>>, <<0, P2>>>>, 1),
      InsertAll(NewBoard(1, 4), <<<<0, P1>>, <<0, P2>>, <<0, P2>>, <<0, P2>>>>, 1),
      InsertAll(NewBoard(1, 4), <<<<0, P2>>, <<0, P2>>, <<0, P2>>, <<0, P2>>>>, 1),
      InsertAll(NewBoard(2, 2), <<<<0, P1>>>>, 1) }

\* A full board of 4 columns and 3 rows on which nobody has four in a row;
\* Player2 owns the bottom piece of column 0 only.
PopoutBoard ==
    InsertAll(NewBoard(4, 3),
              <<<<0, P2>>, <<1, P1>>, <<2, P1>>, <<3, P1>>,
                <<0, P1>>, <<1, P2>>, <<2, P2>>, <<3, P2>>,
                <<0, P2>>, <<1, P1>>, <<2, P2>>, <<3, P1>>>>, 1)

\* The (board, turn) pairs the search is started on.
RootStates ==
    {<<b, turn>> : b \in RootBoards, turn \in Players} \cup {<<PopoutBoard, P2>>}

\* The exploration constants used: sqrt(2), in units of 1/10000.
ExplorationConstants == {14142}

\* Mcts::new on a root state, with an Iterations(n) limit.
Init ==
    /\ \E s \in RootStates, who_am_i \in Players :
           tree = NewTree(GameState(s[1], s[2], who_am_i))
    /\ \E n \in 0..MaxIterations, c \in ExplorationConstants,
          k \in 0..MaxPlayouts, d \in 0..MaxDepth :
           cfg = Config(n, c, k, d)
    /\ pc = "run"
    /\ iter = 0
    /\ cur = [node |-> tree.root, state |-> tree.root_state]
    /\ results = <<>>
    /\ po = NoPlayout(tree.root_state)
    /\ best = NoAction
    /\ panic = ""
    /\ elapsed = 0
    /\ chosen = {}
    /\ crate = "connect_four_logic"
    /\ board = tree.root_state.board
    /\ legacy = LegacyNewBoard(1, 1)
    /\ last = NoCall

\* The test of run()'s loop: the range 0..iterations is not exhausted, or
\* start.elapsed() < time.
WithinLimit ==
    IF cfg.limit_kind = "Iterations" THEN iter < cfg.iterations
    ELSE elapsed < cfg.time

\* run(): the loop starts another iteration(); select() clones root_state.
\* Under TimeSeconds at most MaxIterations iterations fit between two
\* readings of the clock.
RunIteration ==
    /\ pc = "run"
    /\ WithinLimit
    /\ cfg.limit_kind = "TimeSeconds" => iter < MaxIterations
    /\ pc' = "select"
    /\ cur' = [node |-> tree.root, state |-> tree.root_state]
    /\ UNCHANGED <<tree, cfg, elapsed, chosen, iter, results, po, best, panic, boardVars>>

\* run(): the loop is over.
RunReturn ==
    /\ pc = "run"
    /\ ~WithinLimit
    /\ pc' = "done"
    /\ UNCHANGED <<tree, cfg, elapsed, chosen, iter, cur, results, po, best, panic, boardVars>>

\* Mutant of SelectStep: the descent does not replay the action on the state.
SelectStepKeepsState ==
    /\ pc = "select"
    /\ \E r \in UctSelect(tree, cur.node, cfg.exploration_constant) :
           IF r.panic
           THEN /\ pc' = "panic" /\ panic' = "partial_cmp unwrap"
                /\ UNCHANGED cur
           ELSE IF r.finished
           THEN /\ pc' = "expand"
                /\ cur' = [cur EXCEPT !.node = r.node]
                /\ UNCHANGED panic
           ELSE /\ cur' = [cur EXCEPT !.node = r.node]
                /\ UNCHANGED <<pc, panic>>
    /\ UNCHANGED <<tree, cfg, elapsed, chosen, iter, results, po, best, boardVars>>

\* select(): one turn of its loop, a call of uct_select and a descent.
SelectStep ==
    /\ pc = "select"
    /\ \E r \in UctSelect(tree, cur.node, cfg.exploration_constant) :
           IF r.panic
           THEN /\ pc' = "panic" /\ panic' = "partial_cmp unwrap"
                /\ UNCHANGED cur
           ELSE IF r.finished
           THEN /\ pc' = "expand"
                /\ cur' = [cur EXCEPT !.node = r.node]
                /\ UNCHANGED panic
           ELSE LET next == GetNextState(cur.state, r.action)
                IN  IF next.panic
                    THEN /\ pc' = "panic" /\ panic' = "Invalid move"
                         /\ UNCHANGED cur
                    ELSE /\ cur' = [node |-> r.node, state |-> next.state]
                         /\ UNCHANGED <<pc, panic>>
    /\ UNCHANGED <<tree, cfg, elapsed, chosen, iter, results, po, best, boardVars>>

\* Mutant of Expand: the state is not tested for being terminal.
ExpandAlways ==
    /\ pc = "expand"
    /\ LET actions == GetActions(cur.state)
           grown == AddChildren(tree, cur.node, actions, 1)
       IN  /\ tree' = grown
           /\ IF actions = <<>>
              THEN /\ pc' = "panic" /\ panic' = "choose unwrap"
                   /\ UNCHANGED cur
              ELSE \E i \in 1..Len(actions) :
                       LET next == GetNextState(cur.state, actions[i])
                       IN  IF next.panic
                           THEN /\ pc' = "panic" /\ panic' = "Invalid move"
                                /\ UNCHANGED cur
                           ELSE /\ pc' = "simulate"
                                /\ cur' = [node |-> Children(grown, cur.node)[actions[i]],
                                           state |-> next.state]
                                /\ UNCHANGED panic
    /\ results' = <<>>
    /\ chosen' = IF cur'.node # cur.node THEN chosen \cup {cur'.node} ELSE chosen
    /\ UNCHANGED <<cfg, elapsed, iter, po, best, boardVars>>

\* expand(): a terminal state is returned as it is; otherwise every action
\* gets a child and a random one is returned with its successor state.
Expand ==
    /\ pc = "expand"
    /\ IF IsTerminal(cur.state)
       THEN /\ pc' = "simulate"
            /\ UNCHANGED <<tree, cur, panic>>
       ELSE LET actions == GetActions(cur.state)
                grown == AddChildren(tree, cur.node, actions, 1)
            IN  /\ tree' = grown
                /\ IF actions = <<>>
                   THEN /\ pc' = "panic" /\ panic' = "choose unwrap"
                        /\ UNCHANGED cur
                   ELSE \E i \in 1..Len(actions) :
                            LET next == GetNextState(cur.state, actions[i])
                            IN  IF next.panic
                                THEN /\ pc' = "panic" /\ panic' = "Invalid move"
                                     /\ UNCHANGED cur
                                ELSE /\ pc' = "simulate"
                                     /\ cur' = [node |-> Children(grown, cur.node)[actions[i]],
                                                state |-> next.state]
                                     /\ UNCHANGED panic
    /\ results' = <<>>
    /\ chosen' = IF cur'.node # cur.node THEN chosen \cup {cur'.node} ELSE chosen
    /\ UNCHANGED <<cfg, elapsed, iter, po, best, boardVars>>

\* simulate(): the next of the playouts_per_simulation playouts starts on a clone.
SimulateNext ==
    /\ pc = "simulate"
    /\ Len(results) < cfg.playouts_per_simulation
    /\ pc' = "playout"
    /\ po' = NewPlayout(cur.state)
    /\ UNCHANGED <<tree, cfg, elapsed, chosen, iter, cur, results, best, panic, boardVars>>

\* Mutant of SimulateReturn: simulate() returns after the first playout.
SimulateReturnEarly ==
    /\ pc = "simulate"
    /\ Len(results) >= 1
    /\ pc' = "back_propagate"
    /\ UNCHANGED <<tree, cfg, elapsed, chosen, iter, cur, results, po, best, panic, boardVars>>

\* simulate() returns the collected results to iteration().
SimulateReturn ==
    /\ pc = "simulate"
    /\ Len(results) >= cfg.playouts_per_simulation
    /\ pc' = "back_propagate"
    /\ UNCHANGED <<tree, cfg, elapsed, chosen, iter, cur, results, po, best, panic, boardVars>>

\* Mutant of PlayoutContinues: the loop does not test depth < max_depth.
PlayoutContinuesPastDepth ==
    /\ po.depth <= cfg.max_depth_per_playout
    /\ ~po.used_winning_move
    /\ IsTerminalPosition(po.board) = IsNotTerminal
    /\ GetLegalMoves(po.board, po.current_player) # <<>>

\* The while loop of playout goes on.
PlayoutContinues ==
    /\ po.depth < cfg.max_depth_per_playout
    /\ ~po.used_winning_move
    /\ IsTerminalPosition(po.board) = IsNotTerminal
    /\ GetLegalMoves(po.board, po.current_player) # <<>>

\* playout(): one turn of the while loop, a winning move if there is one,
\* a random legal move otherwise; unwrap() panics on an Err.
PlayoutMove ==
    /\ pc = "playout"
    /\ PlayoutContinues
    /\ \E moves \in {GetLegalMoves(po.board, po.current_player)} :
       \E w \in {FirstWinningMove(po.board, moves, po.current_player, 1)} :
       \E i \in (IF w > 0 THEN {w} ELSE 1..Len(moves)) :
       \E r \in {ApplyMove(po.board, moves[i], po.current_player)} :
           IF ~r.result.ok
           THEN /\ pc' = "panic" /\ panic' = "Invalid move"
                /\ UNCHANGED po
           ELSE /\ po' = [board |-> r.board,
                          current_player |-> Other(po.current_player),
                          depth |-> po.depth + 1,
                          used_winning_move |-> w > 0]
                /\ UNCHANGED <<pc, panic>>
    /\ UNCHANGED <<tree, cfg, elapsed, chosen, iter, cur, results, best, boardVars>>

\* playout(): the loop is over and the final board is mapped to a result.
PlayoutReturn ==
    /\ pc = "playout"
    /\ ~PlayoutContinues
    /\ results' = Append(results, PlayoutResult(po.board, cur.state.who_am_i))
    /\ po' = NoPlayout(tree.root_state)
    /\ pc' = "simulate"
    /\ UNCHANGED <<tree, cfg, elapsed, chosen, iter, cur, best, panic, boardVars>>

\* back_propagate(), which ends the iteration and drops its locals.
BackPropagateStep ==
    /\ pc = "back_propagate"
    /\ tree' = BackPropagate(tree, cur.node, results)
    /\ iter' = iter + 1
    /\ pc' = "run"
    /\ cur' = [node |-> tree.root, state |-> tree.root_state]
    /\ results' = <<>>
    /\ UNCHANGED <<cfg, elapsed, chosen, po, best, panic, boardVars>>

\* get_best_mcts_move: best_action().unwrap() after run().
BestActionStep ==
    /\ pc = "done"
    /\ \E a \in BestAction(tree) :
           /\ best' = a
           /\ IF a = NoAction
              THEN pc' = "panic" /\ panic' = "best_action unwrap"
              ELSE pc' = "returned" /\ UNCHANGED panic
    /\ UNCHANGED <<tree, cfg, elapsed, chosen, iter, cur, results, po, boardVars>>

Next ==
    \/ RunIteration
    \/ RunReturn
    \/ SelectStep
    \/ Expand
    \/ SimulateNext
    \/ SimulateReturn
    \/ PlayoutMove
    \/ PlayoutReturn
    \/ BackPropagateStep
    \/ BestActionStep

Spec == Init /\ [][Next]_vars

\* The roots of the runs with a time limit: a board on which the player to
\* move has no legal move, a column with room for one more piece, and a
\* column holding four in a row.
TimedRootStates ==
    { <<InsertAll(NewBoard(1, 1), <<<<0, P1>>>>, 1), P2>>,
      <<InsertAll(NewBoard(1, 4), <<<<0, P1>>, <<0, P2>>, <<0, P2>>>>, 1), P1>>,
      <<InsertAll(NewBoard(1, 4), <<<<0, P2>>, <<0, P2>>, <<0, P2>>, <<0, P2>>>>, 1), P1>> }

\* Mcts::new on a root state with a TimeSeconds(time) limit; run() takes
\* start = Instant::now().
InitTimed ==
    /\ \E s \in TimedRootStates, who_am_i \in Players :
           tree = NewTree(GameState(s[1], s[2], who_am_i))
    /\ \E t \in 0..MaxTime, c \in ExplorationConstants, k \in {0, MaxPlayouts} :
           cfg = TimedConfig(t, c, k, MaxDepth)
    /\ pc = "run"
    /\ iter = 0
    /\ cur = [node |-> tree.root, state |-> tree.root_state]
    /\ results = <<>>
    /\ po = NoPlayout(tree.root_state)
    /\ best = NoAction
    /\ panic = ""
    /\ elapsed = 0
    /\ chosen = {}
    /\ crate = "connect_four_logic"
    /\ board = tree.root_state.board
    /\ legacy = LegacyNewBoard(1, 1)
    /\ last = NoCall

\* Time passes while run() is executing: start.elapsed() grows.
Tick ==
    /\ pc \in {"run", "select", "expand", "simulate", "playout", "back_propagate"}
    /\ elapsed < MaxTime
    /\ elapsed' = elapsed + 1
    /\ UNCHANGED <<tree, cfg, pc, iter, cur, results, po, best, panic, chosen, boardVars>>

\* run() alone, as a caller of Mcts::new with a time limit uses it.
RunSteps ==
    \/ RunIteration
    \/ RunReturn
    \/ SelectStep
    \/ Expand
    \/ SimulateNext
    \/ SimulateReturn
    \/ PlayoutMove
    \/ PlayoutReturn
    \/ BackPropagateStep

NextTimed ==
    \/ RunSteps
    \/ Tick

\* run() executes on one thread that is never suspended for good, and the
\* monotonic clock advances.
SpecTimed ==
    InitTimed /\ [][NextTimed]_vars /\ WF_vars(RunSteps) /\ WF_vars(Tick)

\* get_mut_node_from_nodekey(key).wins = wins; .visits = visits
SetCounters(t, key, wins, visits) ==
    [t EXCEPT !.nodes[key].wins = wins, !.nodes[key].visits = visits]

\* add_child(parent, action) followed by the assignment of the child's counters.
AddCounted(t, parent, action, wins, visits) ==
    SetCounters(AddChild(t, parent, action), Len(t.nodes) + 1, wins, visits)

\* build_test_tree: the tree of chapter 5, with MyAction as action type.
BuildTestTree ==
    LET t1 == SetCounters(NewTree([data |-> 0]), 1, 37, 100)
        t2 == AddCounted(t1, 1, "Up", 60, 79)
        t3 == AddCounted(t2, 2, "Up", 3, 26)
        t4 == AddCounted(t3, 2, "Right", 16, 53)
        t5 == AddCounted(t4, 4, "Up", 27, 35)
        t6 == AddCounted(t5, 4, "Right", 10, 18)
        t7 == AddCounted(t6, 1, "Right", 1, 10)
        t8 == AddCounted(t7, 7, "Up", 6, 6)
        t9 == AddCounted(t8, 8, "Right", 0, 3)
        t10 == AddCounted(t9, 8, "Right", 0, 3)
        t11 == AddCounted(t10, 7, "Right", 3, 4)
    IN  AddCounted(t11, 1, "Down", 2, 11)

\* The exploration constants uct_select is called with on that tree: 1.00,
\* 1.01, .., 2.00, which include the 1.4 and 1.5 of the tests.
ReferenceConstants == {10000 + 100 * i : i \in 0..100}

\* The tests on the tree of build_test_tree, before their call of uct_select.
InitReference ==
    /\ tree = BuildTestTree
    /\ \E c \in ReferenceConstants : cfg = Config(0, c, 0, 0)
    /\ pc = "uct_select"
    /\ iter = 0
    /\ cur = [node |-> tree.root, state |-> tree.root_state]
    /\ results = <<>>
    /\ po = NoPlayout(GameState(NewBoard(1, 1), P1, P1))
    /\ best = NoAction
    /\ panic = ""
    /\ elapsed = 0
    /\ chosen = {}
    /\ crate = "connect_four_logic"
    /\ board = NewBoard(1, 1)
    /\ legacy = LegacyNewBoard(1, 1)
    /\ last = NoCall

\* A call of uct_select on the current node; the node returned is the
\* current node of the next call.
UctSelectCall ==
    /\ pc = "uct_select"
    /\ \E r \in UctSelect(tree, cur.node, cfg.exploration_constant) :
           /\ cur' = [cur EXCEPT !.node = r.node]
           /\ IF r.panic
              THEN pc' = "panic" /\ panic' = "partial_cmp unwrap"
              ELSE /\ pc' = IF r.finished THEN "finished" ELSE "uct_select"
                   /\ UNCHANGED panic
    /\ UNCHANGED <<tree, cfg, elapsed, chosen, iter, results, po, best, boardVars>>

NextReference == UctSelectCall

SpecReference == InitReference /\ [][NextReference]_vars

\* The actions add_child is called with when the tree is used by itself.
TreeActions == {Move("Insert", c) : c \in 0..(MaxWidth - 1)} \cup {Move("Pop", 0)}

\* MctsTree::new(root_state), as Mcts::new calls it.
InitTree ==
    /\ tree = NewTree(GameState(NewBoard(MaxWidth, MaxHeight), P1, P1))
    /\ cfg = Config(0, 0, 0, 0)
    /\ pc = "tree"
    /\ iter = 0
    /\ cur = [node |-> tree.root, state |-> tree.root_state]
    /\ results = <<>>
    /\ po = NoPlayout(tree.root_state)
    /\ best = NoAction
    /\ panic = ""
    /\ elapsed = 0
    /\ chosen = {}
    /\ crate = "connect_four_logic"
    /\ board = tree.root_state.board
    /\ legacy = LegacyNewBoard(1, 1)
    /\ last = NoCall

\* tree.add_child(parent, action) on any node of the arena; the key returned
\* is kept in last.result.
AddChildCall ==
    /\ pc = "tree"
    /\ Len(tree.nodes) < MaxNodes
    /\ \E parent \in 1..Len(tree.nodes), action \in TreeActions :
           tree' = AddChild(tree, parent, action)
    /\ last' = Call("add_child", 0, "none", Ok(Len(tree.nodes) + 1))
    /\ UNCHANGED <<crate, board, legacy, cfg, elapsed, chosen, pc, iter, cur, results, po, best, panic>>

\* best_action() on the tree as it is.
BestActionCall ==
    /\ pc = "tree"
    /\ \E a \in BestAction(tree) : best' = a
    /\ last' = Call("best_action", 0, "none", Ok("unit"))
    /\ UNCHANGED <<crate, board, legacy, tree, cfg, elapsed, chosen, pc, iter, cur, results, po, panic>>

NextTree ==
    \/ AddChildCall
    \/ BestActionCall

SpecTree == InitTree /\ [][NextTree]_vars

\* playout() called on a root state by itself, as State::simulate calls it.
InitPlayout ==
    /\ \E s \in RootStates, who_am_i \in Players :
           tree = NewTree(GameState(s[1], s[2], who_am_i))
    /\ \E c \in ExplorationConstants, d \in 0..MaxDepth : cfg = Config(1, c, 1, d)
    /\ pc = "playout"
    /\ iter = 0
    /\ cur = [node |-> tree.root, state |-> tree.root_state]
    /\ results = <<>>
    /\ po = NewPlayout(tree.root_state)
    /\ best = NoAction
    /\ panic = ""
    /\ elapsed = 0
    /\ chosen = {}
    /\ crate = "connect_four_logic"
    /\ board = tree.root_state.board
    /\ legacy = LegacyNewBoard(1, 1)
    /\ last = NoCall

NextPlayout ==
    \/ PlayoutMove
    \/ PlayoutReturn

\* The playout runs on one thread that is never suspended for good: a turn
\* of the loop that can be taken is taken.
SpecPlayout == InitPlayout /\ [][NextPlayout]_vars /\ WF_vars(NextPlayout)

(***************************************************************************)
(* Properties of the search (Spec).                                        *)
(***************************************************************************)
Range(seq) == {seq[i] : i \in DOMAIN seq}

Root == tree.nodes[tree.root]

NodeKeys == 1..Len(tree.nodes)

RootChildren == Children(tree, tree.root)

\* C1: when run() returns from a fresh tree under Iterations(N) with
\* playouts_per_simulation = k, the root's visits equal N * k.
C1_RootVisits ==
    pc = "done" => Root.visits = cfg.iterations * cfg.playouts_per_simulation

\* run() has returned after several iterations of several playouts that
\* grew the tree below the root's children.
C1_Witness ==
    /\ pc = "done"
    /\ cfg.iterations >= 3
    /\ cfg.playouts_per_simulation >= 2
    /\ \E n \in NodeKeys : tree.nodes[n].parent \notin {NoneKey, tree.root}

\* C2: in every state of a run every node has visits >= 0 and
\* 0 <= wins <= visits, and no node has more visits than its parent.
C2_Counters ==
    \A n \in NodeKeys :
        LET node == tree.nodes[n]
        IN  /\ node.visits >= 0
            /\ 0 <= node.wins /\ node.wins <= node.visits
            /\ node.parent # NoneKey => node.visits <= tree.nodes[node.parent].visits

\* Some node below the root has won playouts, lost others, and has fewer
\* visits than its parent.
C2_Witness ==
    \E n \in NodeKeys :
        LET node == tree.nodes[n]
        IN  /\ node.parent # NoneKey
            /\ 0 < node.wins /\ node.wins < node.visits
            /\ node.visits < tree.nodes[node.parent].visits

\* C3: best_action() returns None exactly when the root has no children;
\* otherwise it returns an action that keys a root child whose visits are
\* maximal among the root's children.
C3_BestAction ==
    \A a \in BestAction(tree) :
        /\ a = NoAction <=> DOMAIN RootChildren = {}
        /\ a # NoAction =>
               /\ a \in DOMAIN RootChildren
               /\ \A b \in DOMAIN RootChildren :
                      tree.nodes[RootChildren[a]].visits >= tree.nodes[RootChildren[b]].visits

\* best_action() returned a child that has more visits than a sibling.
C3_Witness ==
    /\ pc = "returned"
    /\ best \in DOMAIN RootChildren
    /\ \E b \in DOMAIN RootChildren :
           /\ tree.nodes[RootChildren[b]].visits > 0
           /\ tree.nodes[RootChildren[b]].visits < tree.nodes[RootChildren[best]].visits

\* C4: on a non-terminal root state run() terminates normally, and after
\* it best_action() yields a legal action of the root state, which
\* get_best_mcts_move unwraps.
C4_RunYieldsLegalAction ==
    ~IsTerminal(tree.root_state) =>
        /\ pc # "panic"
        /\ pc = "done" => BestAction(tree) \subseteq Range(GetActions(tree.root_state))
        /\ pc = "returned" => best \in Range(GetActions(tree.root_state))

\* C5: no move applied by selection, expansion or a playout is refused by
\* Board::insert or Board::pop: the "Invalid move" panic never happens.
C5_NoInvalidMove == panic # "Invalid move"

\* A playout has applied a pop below a node that selection reached through
\* a child of the root.
C5_Witness ==
    /\ pc = "playout"
    /\ po.depth >= 2
    /\ tree.nodes[cur.node].parent \notin {NoneKey, tree.root}
    /\ po.board # cur.state.board
    /\ Len(SelectSeq(po.board.cells, LAMBDA c : c # Empty))
           < Len(SelectSeq(cur.state.board.cells, LAMBDA c : c # Empty))

(***************************************************************************)
(* Inserts up to a win: the positions of the terminal-detection tests of   *)
(* connect-four-logic, played on from boards small enough to enumerate.    *)
(***************************************************************************)
\* The boards the inserts start on: one row, one column, and two boards of
\* four columns and four rows on which Player2's pieces form a staircase, as
\* test_is_terminal_diag_win sets it up, rising to the right and to the left
\* (the latter with two of Player1's pieces already on it).
WinBoards ==
    { NewBoard(4, 1),
      NewBoard(1, 4),
      InsertAll(NewBoard(4, 4),
                <<<<1, P2>>, <<2, P2>>, <<2, P2>>, <<3, P2>>, <<3, P2>>, <<3, P2>>>>, 1),
      InsertAll(NewBoard(4, 4),
                <<<<2, P2>>, <<1, P2>>, <<1, P2>>, <<0, P2>>, <<0, P2>>, <<0, P2>>,
                  <<2, P1>>, <<1, P1>>>>, 1) }

InitWin ==
    /\ crate = "connect_four_logic"
    /\ board \in WinBoards
    /\ legacy = LegacyNewBoard(1, 1)
    /\ last = NoCall
    /\ tree = NewTree(GameState(board, P1, P1))
    /\ cfg = Config(0, 0, 0, 0)
    /\ pc = "idle"
    /\ iter = 0
    /\ cur = [node |-> 1, state |-> tree.root_state]
    /\ results = <<>>
    /\ po = NoPlayout(tree.root_state)
    /\ best = NoAction
    /\ panic = ""
    /\ elapsed = 0
    /\ chosen = {}

\* The caller plays on while is_terminal_position reports no win.
NextWin ==
    /\ IsTerminalPosition(board).kind # "IsTerminalWin"
    /\ \E col \in 0..(board.width - 1), player \in Players : BoardInsert(col, player)

SpecWin == InitWin /\ [][NextWin]_vars

(***************************************************************************)
(* Properties of the boards (SpecBoard).                                   *)
(***************************************************************************)
Rows(b) == 0..(b.height - 1)

Cols(b) == 0..(b.width - 1)

\* The cell at (col, row) of the board of the crate in use.
CellAt(col, row) ==
    IF crate = "connect_four_logic" THEN Get(board, col, row)
    ELSE LegacyCell(legacy, col, row)

\* The same in the next state.
CellAtNext(col, row) ==
    IF crate = "connect_four_logic" THEN Get(board', col, row)
    ELSE LegacyCell(legacy', col, row)

\* Number of occupied cells of a column.
Pieces(col) == Cardinality({row \in Rows(board) : CellAt(col, row) # Empty})

PiecesNext(col) == Cardinality({row \in Rows(board) : CellAtNext(col, row) # Empty})

\* C6: gravity. After any sequence of successful or failed insert and pop
\* calls from Board::new, in either crate, no Empty cell lies below an
\* occupied cell of its column.
C6_Gravity ==
    \A col \in Cols(board) : \A row \in Rows(board) :
        (row + 1 < board.height /\ CellAt(col, row) # Empty)
            => CellAt(col, row + 1) # Empty

\* A pop has just shifted a piece down under an Empty cell, and a call has failed before.
C6_Witness ==
    /\ last.op = "pop" /\ last.result.ok
    /\ Pieces(last.col) >= 1
    /\ CellAt(last.col, 0) = Empty
    /\ \E col \in Cols(board) : Pieces(col) = board.height

\* C7: pop(col, p) on a column of n >= 1 pieces whose bottom piece is p's
\* succeeds, removes the bottom piece and shifts every piece above it down
\* one row: row 0 is Empty afterwards, n - 1 pieces remain, and a column
\* that was full can be inserted into again.  Stated for both crates.
C7_PopShiftsDown ==
    [][(last'.op = "pop" /\ CellAt(last'.col, board.height - 1) = last'.player)
        => /\ last'.result.ok
           /\ CellAtNext(last'.col, 0) = Empty
           /\ \A row \in Rows(board) :
                  row >= 1 => CellAtNext(last'.col, row) = CellAt(last'.col, row - 1)
           /\ PiecesNext(last'.col) = Pieces(last'.col) - 1
           /\ (Pieces(last'.col) = board.height =>
                  IF crate = "connect_four_logic"
                  THEN CanInsert(board', last'.col) = Ok(0)
                  ELSE LegacyCanInsert(legacy', last'.col).ok)]_vars

\* C8: connect_four_logic insert(col, p) on a column that is not full writes
\* p into the highest-index Empty row of the column, which is the row
\* can_insert(col) reports, and changes no other cell.
C8_InsertFrame ==
    [][(/\ crate = "connect_four_logic"
        /\ last'.op = "insert"
        /\ \E row \in Rows(board) : Get(board, last'.col, row) = Empty)
        => LET col == last'.col
               target == CHOOSE row \in Rows(board) :
                             /\ Get(board, col, row) = Empty
                             /\ \A r \in Rows(board) :
                                    Get(board, col, r) = Empty => r <= row
           IN  /\ last'.result.ok
               /\ CanInsert(board, col) = Ok(target)
               /\ Get(board', col, target) = last'.player
               /\ \A c \in Cols(board), r \in Rows(board) :
                      (c # col \/ r # target) => Get(board', c, r) = Get(board, c, r)
               /\ board'.width = board.width /\ board'.height = board.height
               /\ Len(board'.cells) = Len(board.cells)]_vars

\* An insert landed on top of another piece, next to a column holding pieces.
C8_Witness ==
    /\ crate = "connect_four_logic"
    /\ last.op = "insert" /\ last.result.ok
    /\ Pieces(last.col) >= 2
    /\ \E col \in Cols(board) : col # last.col /\ Pieces(col) >= 1

\* C9: connect_four_logic can_insert(col) returns ColumnFull(col) exactly
\* when every cell of the column is occupied; otherwise it returns the row
\* the next piece lands in: an Empty cell with only occupied cells below.
C9_CanInsert ==
    crate = "connect_four_logic" =>
        \A col \in Cols(board) :
            LET r == CanInsert(board, col)
                full == \A row \in Rows(board) : Get(board, col, row) # Empty
            IN  /\ full <=> ~r.ok
                /\ ~r.ok => r = Err("ColumnFull", col)
                /\ r.ok => /\ r.val \in Rows(board)
                           /\ Get(board, col, r.val) = Empty
                           /\ \A row \in Rows(board) :
                                  row > r.val => Get(board, col, row) # Empty

\* A column was filled by inserts and the next insert was refused.
C9_Witness ==
    /\ crate = "connect_four_logic"
    /\ board.height >= 2
    /\ last.op = "insert" /\ last.result = Err("ColumnFull", last.col)
    /\ \E col \in Cols(board) : CanInsert(board, col).ok /\ Pieces(col) >= 1

\* C10: can_pop(col, p) succeeds iff the bottom cell of the column is p's;
\* it returns ColumnEmpty(col) when that cell is Empty and
\* ColumnNotYours(col) when it is the other player's.  Both crates.
C10_CanPop ==
    \A col \in Cols(board), p \in Players :
        LET r == IF crate = "connect_four_logic" THEN CanPop(board, col, p)
                 ELSE LegacyCanPop(legacy, col, p)
            bottom == CellAt(col, board.height - 1)
        IN  /\ r.ok <=> bottom = p
            /\ bottom = Empty => r = Err("ColumnEmpty", col)
            /\ bottom = Other(p) => r = Err("ColumnNotYours", col)

\* A pop of the other player's piece has just been refused.
C10_Witness ==
    /\ last.op = "pop"
    /\ last.result = Err("ColumnNotYours", last.col)
    /\ CellAt(last.col, board.height - 1) = Other(last.player)

\* C11: connect_four_logic get_legal_moves(board, p) lists exactly the moves
\* Insert(c) with can_insert(c) ok and Pop(c) with can_pop(c, p) ok, each
\* once, by ascending column with Insert(c) before Pop(c); on an empty board
\* it is the width Insert moves and no Pop, for either player.
C11_LegalMoves ==
    crate = "connect_four_logic" =>
        \A p \in Players :
            LET m == GetLegalMoves(board, p)
            IN  /\ \A c \in Cols(board) :
                       /\ (\E i \in DOMAIN m : m[i] = Move("Insert", c))
                              <=> CanInsert(board, c).ok
                       /\ (\E i \in DOMAIN m : m[i] = Move("Pop", c))
                              <=> CanPop(board, c, p).ok
                /\ \A i \in DOMAIN m :
                       /\ m[i].move_type \in {"Insert", "Pop"}
                       /\ m[i].column \in Cols(board)
                /\ \A i, j \in DOMAIN m :
                       i < j => \/ m[i].column < m[j].column
                                \/ /\ m[i].column = m[j].column
                                   /\ m[i].move_type = "Insert"
                                   /\ m[j].move_type = "Pop"
                /\ (\A c \in Cols(board), r \in Rows(board) : Get(board, c, r) = Empty)
                       => m = [i \in 1..board.width |-> Move("Insert", i - 1)]

\* A player may both insert into and pop from a column, and other moves
\* exist in the column after it, after a call that was refused.
C11_Witness ==
    /\ crate = "connect_four_logic"
    /\ board.width >= 2
    /\ ~last.result.ok
    /\ \E p \in Players :
           LET m == GetLegalMoves(board, p)
           IN  /\ Len(m) >= 3
               /\ m[1] = Move("Insert", 0) /\ m[2] = Move("Pop", 0)
               /\ GetLegalMoves(board, Other(p)) # m

(***************************************************************************)
(* Properties of the game rules as the search sees them (Spec).            *)
(***************************************************************************)
\* The boards held by the search: the root's, the selected node's and the
\* playout's.
BoardsInPlay == {tree.root_state.board, cur.state.board, po.board}

\* The directions of a line: right, down, down-right, up-right.
Directions == {<<1, 0>>, <<0, 1>>, <<1, 1>>, <<1, -1>>}

\* Four collinear cells of the board are all occupied by p.
HasFour(b, p) ==
    \E c \in Cols(b), r \in Rows(b), d \in Directions :
        \A i \in 0..3 :
            /\ c + i * d[1] \in Cols(b)
            /\ r + i * d[2] \in Rows(b)
            /\ Get(b, c + i * d[1], r + i * d[2]) = p

\* C12: is_terminal_position reports a win for p iff four collinear cells
\* are all occupied by p, also on a board reached by a pop on which both
\* players have four in a row.
C12_WinIffFour ==
    \A b \in BoardsInPlay, p \in Players :
        IsTerminalPosition(b) = IsTerminalWin(p) <=> HasFour(b, p)

\* The game states held by the search: the root's and the selected node's.
StatesInPlay == {tree.root_state, cur.state}

\* C13: a game state (board plus player to move) is reported as a Draw iff
\* no player has four in a row and the player to move has no legal move.
C13_DrawIffStuck ==
    \A s \in StatesInPlay :
        IsTerminalPosition(s.board) = IsTerminalDraw
            <=> /\ \A p \in Players : ~HasFour(s.board, p)
                /\ GetLegalMoves(s.board, s.turn) = <<>>

(***************************************************************************)
(* Further properties of the boards (SpecBoard).                           *)
(***************************************************************************)
\* C14: round trip.  insert(col, p) into a column whose cells are all Empty
\* followed by pop(col, p) both succeed and restore the board to its state
\* before the insert: the column is all Empty again and no other cell has
\* changed.  Stated for both crates.
C14_InsertThenPop ==
    [][(/\ last.op = "insert" /\ last.result.ok
        /\ Pieces(last.col) = 1
        /\ last'.op = "pop" /\ last'.col = last.col /\ last'.player = last.player)
        => /\ last'.result.ok
           /\ \A row \in Rows(board) : CellAtNext(last.col, row) = Empty
           /\ \A col \in Cols(board), row \in Rows(board) :
                  col # last.col => CellAtNext(col, row) = CellAt(col, row)]_vars

\* C15: Board::get(col, row) is bounds-checked: it yields InvalidColumn(col)
\* for col >= width and InvalidRow(row) for row >= height, the cell itself
\* in range, and never the contents of another cell.  Stated for both crates.
C15_GetBoundsChecked ==
    \A col \in 0..(MaxWidth + 1), row \in 0..(MaxHeight + 1) :
        LET r == IF crate = "connect_four_logic" THEN GetIndexed(board, col, row)
                 ELSE LegacyGet(legacy, col, row)
        IN  /\ col >= board.width => r = Err("InvalidColumn", col)
            /\ (col < board.width /\ row >= board.height) => r = Err("InvalidRow", row)
            /\ (col < board.width /\ row < board.height) => r = Ok(CellAt(col, row))

(***************************************************************************)
(* Properties of playouts and simulations (Spec, SpecPlayout).             *)
(***************************************************************************)
\* C16: every playout ends after at most max_depth moves: depth counts the
\* moves applied, it never exceeds max_depth (so with max_depth = 0 the
\* board is the one the playout started on), and the playout returns.
C16_PlayoutTerminates ==
    /\ [](pc = "playout" =>
             /\ po.depth \in 0..cfg.max_depth_per_playout
             /\ po.depth = 0 => po.board = cur.state.board)
    /\ [][(pc = "playout" /\ pc' = "playout" /\ po'.board # po.board)
             => po'.depth = po.depth + 1]_vars
    /\ (pc = "playout" ~> pc # "playout")

\* A playout was cut off at max_depth >= 2 on a board where the game could
\* go on.
C16_Witness ==
    /\ pc = "playout"
    /\ cfg.max_depth_per_playout >= 2
    /\ po.depth = cfg.max_depth_per_playout
    /\ IsTerminalPosition(po.board) = IsNotTerminal
    /\ GetLegalMoves(po.board, po.current_player) # <<>>

\* The mover has a legal move on board b after which is_terminal_position
\* reports a win for the mover.
HasWinningMove(b, mover) ==
    \E m \in Range(GetLegalMoves(b, mover)) :
        IsTerminalPosition(ApplyMove(b, m, mover).board) = IsTerminalWin(mover)

C19_Simulate ==
    /\ [](/\ pc \in {"simulate", "playout"}
              => Len(results) <= cfg.playouts_per_simulation
          /\ pc = "playout" => Len(results) < cfg.playouts_per_simulation
          /\ pc = "back_propagate"
              => /\ Len(results) = cfg.playouts_per_simulation
                 /\ \A i \in DOMAIN results : results[i] \in {"Win", "NotWin"})
    /\ [][/\ pc \in {"simulate", "playout"} => cur' = cur
          /\ (pc = "simulate" /\ pc' = "playout")
               => /\ po'.board = cur.state.board
                  /\ po'.current_player = cur.state.turn
                  /\ po'.depth = 0
                  /\ results' = results]_vars

\* simulate has run two playouts that made moves from a state below the
\* root and is about to hand back their results.
C19_Witness ==
    /\ pc = "back_propagate"
    /\ cfg.playouts_per_simulation = 2
    /\ Len(results) = 2
    /\ cfg.max_depth_per_playout >= 1
    /\ cur.node # tree.root
    /\ ~IsTerminal(cur.state)
    /\ GetActions(cur.state) # <<>>

(***************************************************************************)
(* The engine's tree: successor states, expansion, selection, statistics.  *)
(***************************************************************************)
\* The board a move of the given player leaves behind.
BoardAfter(b, action, player) ==
    IF action.move_type = "Insert" THEN Insert(b, action.column, player).board
    ELSE Pop(b, action.column, player).board

\* C21: get_next_state(action) never mutates the state it is called on: the
\* state select() descends to has the old board with the move applied for
\* the old player to move, the other player to move and the same who_am_i;
\* the engine's root_state is the same before and after run().
C21_GetNextStatePure ==
    /\ [][/\ tree'.root_state = tree.root_state
          /\ (pc = "select" /\ pc' = "select")
               => \E a \in DOMAIN Children(tree, cur.node) :
                      /\ cur'.node = Children(tree, cur.node)[a]
                      /\ cur'.state.board = BoardAfter(cur.state.board, a, cur.state.turn)
                      /\ cur'.state.turn = Other(cur.state.turn)
                      /\ cur'.state.turn # cur.state.turn
                      /\ cur'.state.who_am_i = cur.state.who_am_i
          /\ (pc = "run" /\ pc' = "select") => cur'.state = tree.root_state]_vars
    /\ [](cur.state.who_am_i = tree.root_state.who_am_i)

\* select() has descended two levels below the root, to a state whose board
\* differs from the root's, and the third iteration is under way.
C21_Witness ==
    /\ pc = "select"
    /\ iter = 2
    /\ cur.node # tree.root
    /\ tree.nodes[cur.node].parent # tree.root
    /\ cur.state.board # tree.root_state.board
    /\ cur.state.turn = tree.root_state.turn

\* run() has returned between two iterations: no phase is half done.
IterationsComplete ==
    /\ results = <<>>
    /\ cur = [node |-> tree.root, state |-> tree.root_state]
    /\ Root.visits = iter * cfg.playouts_per_simulation
    /\ \A n \in NodeKeys :
           \E m \in 0..iter : tree.nodes[n].visits = m * cfg.playouts_per_simulation

\* run() returns only from the test of its loop, with every iteration whole.
RunReturnsBetweenIterations ==
    /\ [][pc' = "done" => pc = "run"]_vars
    /\ [](pc = "done" => IterationsComplete)
    /\ [](pc = "done" /\ cfg.limit_kind = "TimeSeconds"
             => /\ elapsed >= cfg.time
                /\ cfg.time = 0 => iter = 0 /\ Len(tree.nodes) = 1)
    /\ [][(pc = "run" /\ pc' = "select" /\ cfg.limit_kind = "TimeSeconds")
             => elapsed < cfg.time]_vars

\* C23: iterations are indivisible under either budget kind: the budget is
\* consulted only between iterations, so whenever run() returns every
\* started iteration has completed all four phases and every node's visits
\* is a multiple of k; with a wall-clock budget run() returns once the clock
\* has passed the limit (after zero iterations if the limit is zero).
C23_Indivisible ==
    /\ RunReturnsBetweenIterations
    /\ (cfg.limit_kind = "TimeSeconds" /\ elapsed >= cfg.time) ~> (pc = "done")

\* The next state's children of a node.
ChildrenNext(node) == tree'.nodes[node].children

ActionOf(t, n) ==
    CHOOSE a \in DOMAIN Children(t, t.nodes[n].parent) :
        Children(t, t.nodes[n].parent)[a] = n

\* The position of a node: root_state with the actions on the path from the
\* root applied in order, as the loop of select() replays them.
RECURSIVE PositionOf(_, _)
PositionOf(t, n) ==
    IF n = t.root THEN t.root_state
    ELSE LET before == PositionOf(t, t.nodes[n].parent)
         IN  GameState(BoardAfter(before.board, ActionOf(t, n), before.turn),
                       Other(before.turn), before.who_am_i)

\* C25: in every reachable state of a run each node's children map is empty
\* or has as its key set exactly the legal actions of the node's position;
\* once it is not empty it never changes again.
C25_ChildrenAreLegalActions ==
    /\ [](\A n \in NodeKeys :
              \/ Children(tree, n) = <<>>
              \/ DOMAIN Children(tree, n) = Range(GetActions(PositionOf(tree, n))))
    /\ [][\A n \in NodeKeys :
              Children(tree, n) # <<>> => ChildrenNext(n) = Children(tree, n)]_vars

\* Two levels of the tree are expanded, a node below the root has two
\* children while another node below the root has none, and the run goes on.
C25_Witness ==
    /\ pc = "select"
    /\ \E n \in NodeKeys :
           /\ n # tree.root
           /\ Cardinality(DOMAIN Children(tree, n)) = 2
           /\ PositionOf(tree, n).board # tree.root_state.board
    /\ \E n \in NodeKeys : n # tree.root /\ Children(tree, n) = <<>>

\* C26: a node whose position is terminal (is_terminal reports a win or a
\* draw) is never expanded: in every reachable state every node with at
\* least one child has a position that is not terminal, and expand on a
\* terminal state returns the same (node, state) and adds no node.
C26_TerminalNeverExpanded ==
    /\ [](\A n \in NodeKeys :
              Children(tree, n) # <<>> => ~IsTerminal(PositionOf(tree, n)))
    /\ [](\A n \in NodeKeys :
              IsTerminalPosition(PositionOf(tree, n).board).kind
                  \in {"IsTerminalWin", "IsTerminalDraw"}
                => DOMAIN Children(tree, n) = {})
    /\ [][(pc = "expand" /\ IsTerminal(cur.state))
             => /\ cur' = cur
                /\ tree' = tree
                /\ pc' = "simulate"]_vars

\* expand has just been applied, in the second iteration or later, to a node
\* below the root whose position is a win although its player to move has
\* legal moves; it returned the node as it was.
C26_Witness ==
    /\ pc = "simulate"
    /\ results = <<>>
    /\ iter >= 1
    /\ cur.node # tree.root
    /\ IsTerminal(cur.state)
    /\ IsTerminalPosition(cur.state.board).kind = "IsTerminalWin"
    /\ GetActions(cur.state) # <<>>
    /\ Children(tree, cur.node) = <<>>
    /\ tree.nodes[cur.node].visits > 0

\* The nodes from n up to the root, both included.
RECURSIVE PathToRoot(_, _)
PathToRoot(t, n) ==
    IF t.nodes[n].parent = NoneKey THEN {n}
    ELSE {n} \cup PathToRoot(t, t.nodes[n].parent)

\* C27: back_propagate(node, results) adds len(results) to visits and the
\* number of Win entries to wins at the given node and at every ancestor up
\* to and including the root, and leaves visits, wins, parent and children
\* of every other node unchanged; it creates and removes no node.
C27_BackPropagate ==
    [][pc = "back_propagate"
          => LET path == PathToRoot(tree, cur.node)
                 won == Cardinality({i \in DOMAIN results : results[i] = "Win"})
             IN  /\ tree.root \in path
                 /\ Len(tree'.nodes) = Len(tree.nodes)
                 /\ tree'.root = tree.root
                 /\ \A n \in NodeKeys :
                        /\ tree'.nodes[n].parent = tree.nodes[n].parent
                        /\ tree'.nodes[n].children = tree.nodes[n].children
                        /\ IF n \in path
                           THEN /\ tree'.nodes[n].visits
                                     = tree.nodes[n].visits + Len(results)
                                /\ tree'.nodes[n].wins = tree.nodes[n].wins + won
                           ELSE /\ tree'.nodes[n].visits = tree.nodes[n].visits
                                /\ tree'.nodes[n].wins = tree.nodes[n].wins]_vars

\* back_propagate has carried two Win results from a node two levels below
\* the root up to the root, which has also received NotWin results, past a
\* node off that path that was left unvisited.
C27_Witness ==
    /\ pc = "run"
    /\ iter >= 2
    /\ cfg.playouts_per_simulation = 2
    /\ \E n \in NodeKeys :
           /\ n # tree.root
           /\ tree.nodes[n].parent # tree.root
           /\ tree.nodes[n].visits = 2
           /\ tree.nodes[n].wins = 2
           /\ tree.nodes[tree.nodes[n].parent].wins = 2
           /\ Root.wins < Root.visits
           /\ \E m \in NodeKeys : m \notin PathToRoot(tree, n) /\ tree.nodes[m].visits = 0

\* C28: select() terminates and returns a node that has no children, paired
\* with the state obtained by applying to a clone of root_state, in order,
\* the actions on the path from the root to that node; select modifies
\* neither the tree nor root_state.
C28_Select ==
    /\ [](pc \in {"select", "expand"} => cur.state = PositionOf(tree, cur.node))
    /\ [](pc = "expand" => Children(tree, cur.node) = <<>>)
    /\ [][pc = "select"
             => /\ tree' = tree
                /\ pc' \in {"select", "expand"}
                /\ cur' # cur => cur'.node # cur.node
                /\ cur'.node # cur.node => tree.nodes[cur'.node].parent = cur.node]_vars
    /\ (pc = "select") ~> (pc = "expand")

\* select() has returned a node two levels below the root, after passing a
\* node whose children had all been visited.
C28_Witness ==
    /\ pc = "expand"
    /\ cur.node # tree.root
    /\ tree.nodes[cur.node].parent # tree.root
    /\ Children(tree, cur.node) = <<>>
    /\ cur.state.board # tree.root_state.board
    /\ \A a \in DOMAIN RootChildren : tree.nodes[RootChildren[a]].visits > 0

\* The UCT score of a child of node h in the current tree.
ScoreOf(h, child) ==
    UctScore(tree.nodes[child].visits, tree.nodes[child].wins,
             tree.nodes[h].visits, cfg.exploration_constant)

\* Score x is not below score y (f64 ordering; fixed-point scores closer
\* than the rounding error of 4 units are not told apart).
ScoreAtLeast(x, y) ==
    \/ x.kind = "inf"
    \/ x.kind = "num" /\ y.kind = "num" /\ x.val + 4 >= y.val

\* C29: uct_select(tree, h, C) returns {node: h, action: None, finished:
\* true} iff h has no children; otherwise it returns finished = false,
\* action = Some(a) and node = children(h)[a], where that child's UCT score
\* is maximal among the children of h.
C29_UctSelect ==
    /\ [](panic # "partial_cmp unwrap")
    /\ [][pc = "select"
             => LET h == cur.node
                    children == Children(tree, h)
                IN  IF DOMAIN children = {}
                    THEN /\ pc' = "expand"
                         /\ cur' = cur
                    ELSE /\ pc' = "select"
                         /\ \E a \in DOMAIN children :
                                /\ cur'.node = children[a]
                                /\ cur'.state.board
                                     = BoardAfter(cur.state.board, a, cur.state.turn)
                                /\ \A b \in DOMAIN children :
                                       ScoreAtLeast(ScoreOf(h, children[a]),
                                                    ScoreOf(h, children[b]))]_vars

\* uct_select has just chosen, among two visited children of the root whose
\* scores differ, the one with the higher score.
C29_Witness ==
    /\ pc = "select"
    /\ tree.nodes[cur.node].parent = tree.root
    /\ Cardinality(DOMAIN RootChildren) = 2
    /\ \A a \in DOMAIN RootChildren :
           /\ tree.nodes[RootChildren[a]].visits > 0
           /\ RootChildren[a] # cur.node
                => ScoreOf(tree.root, cur.node).val
                       > ScoreOf(tree.root, RootChildren[a]).val + 4

\* The other children of the parent of node n.
Siblings(n) ==
    {m \in NodeKeys : m # n /\ tree.nodes[m].parent = tree.nodes[n].parent}

\* C30: a child with visits = 0 scores +infinity and is preferred by
\* uct_select over every sibling with visits > 0, so that during a run with
\* k >= 1 no child of an expanded node receives a second backpropagation
\* while some sibling of it still has visits = 0.
C30_UnvisitedFirst ==
    /\ [](\A n \in NodeKeys \ {tree.root} :
              tree.nodes[n].visits = 0
                => ScoreOf(tree.nodes[n].parent, n).kind = "inf")
    /\ [][(pc = "select" /\ pc' = "select" /\ cfg.playouts_per_simulation >= 1
              /\ \E a \in DOMAIN Children(tree, cur.node) :
                     tree.nodes[Children(tree, cur.node)[a]].visits = 0)
             => tree.nodes[cur'.node].visits = 0]_vars
    /\ [][cfg.playouts_per_simulation >= 1
             => \A n \in NodeKeys \ {tree.root} :
                    (tree.nodes[n].visits > 0 /\ tree'.nodes[n].visits > tree.nodes[n].visits)
                      => \A m \in Siblings(n) : tree.nodes[m].visits > 0]_vars

\* The run is over; a child of the root, with a sibling, has received its
\* second backpropagation after every sibling had been visited.
C30_Witness ==
    /\ pc = "done"
    /\ cfg.playouts_per_simulation >= 1
    /\ \E n \in NodeKeys :
           /\ tree.nodes[n].parent = tree.root
           /\ tree.nodes[n].visits >= 2 * cfg.playouts_per_simulation
           /\ Siblings(n) # {}
           /\ \A m \in Siblings(n) : tree.nodes[m].visits > 0

(***************************************************************************)
(* The tree of build_test_tree (SpecReference).                            *)
(***************************************************************************)
\* C31: on the reference tree (root 37/100 with children Up 60/79, Right
\* 1/10, Down 2/11) uct_select from the root returns the 60/79 child when
\* C = 1.4 and the 2/11 child when C = 1.5, the scores being wins/visits +
\* C * sqrt(ln(parent_visits) / visits): 1.098, 1.050 and 1.088 for C = 1.4,
\* to three decimals.
C31_ReferenceTree ==
    /\ [](/\ UctScore(79, 60, 100, 14000).val \in 10970..10990
          /\ UctScore(10, 1, 100, 14000).val \in 10490..10510
          /\ UctScore(11, 2, 100, 14000).val \in 10870..10890)
    /\ [][(pc = "uct_select" /\ cur.node = tree.root)
             => /\ tree.nodes[cur'.node].parent = tree.root
                /\ cfg.exploration_constant = 14000
                     => tree.nodes[cur'.node].visits = 79 /\ tree.nodes[cur'.node].wins = 60
                /\ cfg.exploration_constant = 15000
                     => tree.nodes[cur'.node].visits = 11 /\ tree.nodes[cur'.node].wins = 2]_vars

\* uct_select with C = 1.5 has returned the 2/11 child of the root.
C31_Witness ==
    /\ cfg.exploration_constant = 15000
    /\ tree = BuildTestTree
    /\ Root.visits = 100 /\ Root.wins = 37
    /\ tree.nodes[cur.node].parent = tree.root
    /\ tree.nodes[cur.node].visits = 11
    /\ tree.nodes[cur.node].wins = 2

(***************************************************************************)
(* The arena by itself (SpecTree) and in a run (Spec).                     *)
(***************************************************************************)
\* Every key stored in the tree refers to a node of the arena.
HandlesValid ==
    /\ tree.root \in NodeKeys
    /\ \A n \in NodeKeys :
           /\ tree.nodes[n].parent \in NodeKeys \cup {NoneKey}
           /\ \A a \in DOMAIN Children(tree, n) : Children(tree, n)[a] \in NodeKeys

\* C32: add_child(parent, action) inserts one fresh node with parent =
\* Some(parent), visits = wins = 0 and no children, registers it as
\* children(parent)[action] and returns its key; it changes no other node,
\* and no node is ever removed, so every key returned before, every stored
\* parent key and every stored child key still refers to an existing node.
C32_AddChild ==
    /\ [](HandlesValid /\ (last.op = "add_child" => last.result.val \in NodeKeys))
    /\ [][tree' # tree
             => LET child == Len(tree.nodes) + 1
                IN  /\ Len(tree'.nodes) = child
                    /\ last'.result.val = child
                    /\ tree'.root = tree.root
                    /\ tree'.nodes[child].visits = 0
                    /\ tree'.nodes[child].wins = 0
                    /\ tree'.nodes[child].children = <<>>
                    /\ \E parent \in NodeKeys, action \in TreeActions :
                           /\ tree'.nodes[child].parent = parent
                           /\ DOMAIN ChildrenNext(parent)
                                = DOMAIN Children(tree, parent) \cup {action}
                           /\ ChildrenNext(parent)[action] = child
                           /\ \A a \in DOMAIN Children(tree, parent) \ {action} :
                                  ChildrenNext(parent)[a] = Children(tree, parent)[a]
                           /\ tree'.nodes[parent].visits = tree.nodes[parent].visits
                           /\ tree'.nodes[parent].wins = tree.nodes[parent].wins
                           /\ tree'.nodes[parent].parent = tree.nodes[parent].parent
                           /\ \A n \in NodeKeys \ {parent} :
                                  tree'.nodes[n] = tree.nodes[n]]_vars

\* add_child has filled the arena; a node below the root has two children,
\* and an earlier child of the root was replaced in the root's map by a
\* later call with the same action but is still in the arena.
C32_Witness ==
    /\ last.op = "add_child"
    /\ Len(tree.nodes) = MaxNodes
    /\ \E n \in NodeKeys \ {tree.root} : Cardinality(DOMAIN Children(tree, n)) = 1
    /\ \E n \in NodeKeys :
           /\ tree.nodes[n].parent = tree.root
           /\ \A a \in DOMAIN RootChildren : RootChildren[a] # n

\* C33: a newly constructed tree (MctsTree::new / Mcts::new) contains
\* exactly one node, the root, with visits = 0, wins = 0, no parent and no
\* children; best_action() on it returns None.
C33_NewTree ==
    /\ last.op \in {"new", "best_action"} /\ Len(tree.nodes) <= 1
         => /\ Len(tree.nodes) = 1
            /\ tree.root \in NodeKeys
            /\ Root.visits = 0
            /\ Root.wins = 0
            /\ Root.parent = NoneKey
            /\ DOMAIN Root.children = {}
            /\ best = NoAction
    /\ last.op = "new" => Len(tree.nodes) = 1

\* best_action() has been called on the tree MctsTree::new returned.
C33_Witness ==
    /\ last.op = "best_action"
    /\ Len(tree.nodes) = 1
    /\ best = NoAction

\* C34: a node whose position is terminal receives, each time it is the
\* simulated leaf, k identical results determined by the terminal outcome:
\* in every reachable state such a node has wins = visits if the position
\* is a win for the perspective player (four collinear cells of that player)
\* and wins = 0 otherwise (a win of the opponent or a draw).
C34_TerminalLeaf ==
    /\ \A n \in NodeKeys :
           LET position == PositionOf(tree, n)
           IN  IsTerminal(position)
                 => /\ \E m \in 0..iter :
                           tree.nodes[n].visits = m * cfg.playouts_per_simulation
                    /\ IF HasFour(position.board, position.who_am_i)
                       THEN tree.nodes[n].wins = tree.nodes[n].visits
                       ELSE tree.nodes[n].wins = 0
    /\ (pc = "back_propagate" /\ IsTerminal(cur.state))
         => \A i \in DOMAIN results : results[i] = results[1]

\* The keys filed in the children map of node n.
ChildKeys(n) == {Children(tree, n)[a] : a \in DOMAIN Children(tree, n)}

\* The sums of visits and of wins over a set of nodes.
RECURSIVE SumVisits(_)
SumVisits(S) ==
    IF S = {} THEN 0
    ELSE LET n == CHOOSE x \in S : TRUE
         IN  tree.nodes[n].visits + SumVisits(S \ {n})

RECURSIVE SumWins(_)
SumWins(S) ==
    IF S = {} THEN 0
    ELSE LET n == CHOOSE x \in S : TRUE
         IN  tree.nodes[n].wins + SumWins(S \ {n})

\* What C35 says of the nodes below the root that have children.
InnerNodeSums ==
    \A n \in NodeKeys \ {tree.root} :
        ChildKeys(n) # {}
          => LET own == tree.nodes[n].visits - SumVisits(ChildKeys(n))
             IN  /\ own \in {0, cfg.playouts_per_simulation}
                 /\ n \in chosen => own = cfg.playouts_per_simulation
                 /\ n \notin chosen => own = 0
                 /\ tree.nodes[n].wins >= SumWins(ChildKeys(n))

\* C35: after every complete iteration the root's visits and wins equal the
\* sums of its children's visits and wins, and for every non-root node that
\* has children, visits minus the sum of its children's visits is either 0
\* or k (k exactly when the node was the randomly chosen child simulated at
\* its parent's expansion) and wins is at least the sum of its children's
\* wins.
C35_Sums ==
    (pc \in {"run", "done"} /\ iter >= 1)
      => /\ Root.visits = SumVisits(ChildKeys(tree.root))
         /\ Root.wins = SumWins(ChildKeys(tree.root))
         /\ InnerNodeSums

\* C35 as amended: the equality at the root holds when the root has
\* children; a root without children, whose state is terminal, is itself
\* the simulated leaf of every iteration and has visits = iterations * k.
C35_SumsAmended ==
    (pc \in {"run", "done"} /\ iter >= 1)
      => /\ IF ChildKeys(tree.root) # {}
            THEN /\ Root.visits = SumVisits(ChildKeys(tree.root))
                 /\ Root.wins = SumWins(ChildKeys(tree.root))
            ELSE /\ IsTerminal(tree.root_state)
                 /\ Root.visits = iter * cfg.playouts_per_simulation
         /\ InnerNodeSums

\* After three iterations of two playouts a node below the root that expand
\* had returned as its random child has children of its own, and the root
\* has visited children.
C35_Witness ==
    /\ pc = "run"
    /\ iter = 3
    /\ cfg.playouts_per_simulation = 2
    /\ Root.visits = 6
    /\ Root.wins > 0
    /\ \E n \in chosen :
           /\ ChildKeys(n) # {}
           /\ tree.nodes[n].visits = 2 + SumVisits(ChildKeys(n))

\* The node reached from n by following at most steps parent links.
RECURSIVE Climb(_, _)
Climb(n, steps) ==
    IF steps = 0 \/ tree.nodes[n].parent = NoneKey THEN n
    ELSE Climb(tree.nodes[n].parent, steps - 1)

\* The entries <<holder, action>> of children maps whose value is node n.
EntriesOf(n) ==
    UNION {{<<h, a>> : a \in {x \in DOMAIN Children(tree, h) : Children(tree, h)[x] = n}}
              : h \in NodeKeys}

\* C36: in every state reachable by run() on a Connect Four state the root
\* is the only node without a parent; every other node appears exactly once
\* as a value in its parent's children map (under exactly one action) and in
\* no other node's children map; and following parent links from any node
\* reaches the root, so the tree has no cycle and no orphan.
C36_WellFormed ==
    /\ Root.parent = NoneKey
    /\ EntriesOf(tree.root) = {}
    /\ \A n \in NodeKeys \ {tree.root} :
           /\ tree.nodes[n].parent \in NodeKeys
           /\ Cardinality(EntriesOf(n)) = 1
           /\ \A e \in EntriesOf(n) : e[1] = tree.nodes[n].parent
    /\ \A n \in NodeKeys : Climb(n, Len(tree.nodes)) = tree.root

\* run() has returned with a tree of three levels below the root in which
\* some node has several children.
C36_Witness ==
    /\ pc = "done"
    /\ panic = ""
    /\ \E n \in NodeKeys :
           /\ tree.nodes[n].parent # NoneKey
           /\ tree.nodes[tree.nodes[n].parent].parent # NoneKey
           /\ tree.nodes[tree.nodes[tree.nodes[n].parent].parent].parent = tree.root
    /\ \E n \in NodeKeys : Cardinality(DOMAIN Children(tree, n)) >= 2

\* C37: for every game state reachable by legal moves, if is_terminal() is
\* false then get_actions() for the player to move is non-empty, so expand
\* never draws a random action from an empty list (no unwrap on None) and a
\* non-terminal leaf always gains at least one child.
C37_NonTerminalCanMove ==
    /\ \A s \in StatesInPlay : ~IsTerminal(s) => GetActions(s) # <<>>
    /\ panic # "choose unwrap"

\* C38: a failing game operation leaves the board unchanged.  insert fails
\* with ColumnFull only and pop with ColumnEmpty or ColumnNotYours only, and
\* after either failure every cell is the same as before the call;
\* can_insert, can_pop, get_legal_moves and is_terminal_position never
\* modify the board.
C38_FailureKeepsBoard ==
    [][crate = "connect_four_logic"
          => /\ (last'.op = "insert" /\ ~last'.result.ok)
                   => /\ last'.result = Err("ColumnFull", last'.col)
                      /\ board' = board
             /\ (last'.op = "pop" /\ ~last'.result.ok)
                   => /\ last'.result.err \in {"ColumnEmpty", "ColumnNotYours"}
                      /\ board' = board
             /\ last'.op \in {"can_insert", "can_pop", "get_legal_moves",
                              "is_terminal_position"}
                   => board' = board]_vars

\* A pop of a column whose bottom piece is the other player's has just been
\* refused on a board that holds pieces of both players.
C38_Witness ==
    /\ crate = "connect_four_logic"
    /\ last.op = "pop"
    /\ last.result = Err("ColumnNotYours", last.col)
    /\ Pieces(last.col) = board.height
    /\ \E col \in Cols(board) : CellAt(col, board.height - 1) = last.player

\* No player has four collinear pieces on the board.
NoFour(b) == \A p \in Players : ~HasFour(b, p)

\* C39: on a board with no four in a row, a successful insert by player p
\* never produces a position reported as a win for the other player: the
\* result is Win(p) exactly when the inserted piece completes four collinear
\* p pieces, and otherwise is not a win; an empty board is NotTerminal.
C39_InsertWins ==
    /\ []((\A i \in DOMAIN board.cells : board.cells[i] = Empty)
             => IsTerminalPosition(board) = IsNotTerminal)
    /\ [][(NoFour(board) /\ last'.op = "insert" /\ last'.result.ok /\ board' # board)
             => LET reported == IsTerminalPosition(board')
                    four == HasFour(board', last'.player)
                IN  /\ reported # IsTerminalWin(Other(last'.player))
                    /\ reported = IsTerminalWin(last'.player) <=> four
                    /\ ~four => reported.kind # "IsTerminalWin"]_vars

\* Player1's insert on top of the staircase has completed a diagonal of
\* four, reported as Player1's win, while Player2 holds three in a row.
C39_Witness ==
    /\ board.width = 4 /\ board.height = 4
    /\ last.op = "insert" /\ last.result.ok /\ last.player = P1
    /\ last.col = 3
    /\ \A i \in 0..3 : Get(board, i, 3 - i) = P1
    /\ ~(\A i \in 0..3 : Get(board, i, 3) = P1)
    /\ IsTerminalPosition(board) = IsTerminalWin(P1)
====
